---- MODULE Spec2Model ----
(***************************************************************************)
(* Model of the Transactor of fuel-vm (fuel-vm/src/transactor.rs): the     *)
(* state machine that owns one Interpreter, converts Checked transactions  *)
(* to Ready ones, dispatches transact / deploy / upgrade and latches the   *)
(* outcome of transact in the two fields program_state and error.          *)
(*                                                                         *)
(* The Transactor is translated from transactor.rs.  The Interpreter, the  *)
(* Checked -> Ready conversion, ProgramState, Receipt and the instruction  *)
(* set live in files that are not part of the sources at hand; they are    *)
(* modelled from the specification (sections 3, 4.1, 4.2, 6 and 7) and are *)
(* marked as such where they are defined.                                  *)
(***************************************************************************)
EXTENDS Integers, Sequences, FiniteSets, TLC

VARIABLES
    interpreter,    \* Transactor.interpreter (transactor.rs:52)
    program_state,  \* Transactor.program_state : Option<ProgramState> (transactor.rs:53)
    error,          \* Transactor.error : Option<InterpreterError> (transactor.rs:54)
    returned,       \* what the last mutating call returned to its caller
    last,           \* history: the last mutating call, its input, what the
                    \* conversion and the Interpreter returned to the Transactor
    observed,       \* the values the read accessors returned when last called
    calls,          \* the number of mutating calls made so far
    predicate       \* two PredicateCode values (predicate.rs:15-18), the byte
                    \* vectors a caller put into them, and the last comparison

vars == <<interpreter, program_state, error, returned, last, observed, calls,
          predicate>>

----------------------------------------------------------------------------
(* Bounds of the model.                                                    *)

MaxCalls == 3
MaxGasLimit == 3
MaxFunds == 3

----------------------------------------------------------------------------
(* Option and Result.                                                      *)

None == [tag |-> "None"]
Some(x) == [tag |-> "Some", v |-> x]
is_some(o) == o.tag = "Some"
is_none(o) == o.tag = "None"

Ok(x) == [tag |-> "Ok", v |-> x]
Err(e) == [tag |-> "Err", v |-> e]
is_ok(r) == r.tag = "Ok"
is_err(r) == r.tag = "Err"

----------------------------------------------------------------------------
(* ProgramState: Return(value), Revert(code) or Stop.                      *)

Return(v) == [tag |-> "Return", v |-> v]
Revert(c) == [tag |-> "Revert", v |-> c]
Stop == [tag |-> "Stop", v |-> 0]

(* InterpreterError: CheckError, a Storage Backend error, or the synthetic *)
(* NoTransactionInitialized of Transactor::result.                         *)
CheckError == [tag |-> "CheckError"]
StorageError == [tag |-> "Storage"]
ContractAlreadyDeployed == [tag |-> "ContractAlreadyDeployed"]
NoTransactionInitialized == [tag |-> "NoTransactionInitialized"]

----------------------------------------------------------------------------
(* Receipts.  A receipt describes one event; a panic or revert receipt     *)
(* carries a failing result.                                               *)

Receipt(kind, result) == [kind |-> kind, result |-> result]
LogReceipt == Receipt("Log", None)
ReturnReceipt == Receipt("Return", None)
RevertReceipt == Receipt("Revert", Some("Revert"))
PanicReceipt(reason) == Receipt("Panic", Some(reason))

(* Receipt::result                                                         *)
Receipt_result(r) == r.result

(* Iterator::find_map over a receipt slice: the first Some.                *)
RECURSIVE find_map_result(_)
find_map_result(rs) ==
    IF rs = <<>> THEN None
    ELSE IF is_some(Receipt_result(Head(rs))) THEN Receipt_result(Head(rs))
    ELSE find_map_result(Tail(rs))

----------------------------------------------------------------------------
(* Transactions.  A transaction has a kind, a body (the index of a Script's *)
(* bytecode in Programs, a Create's contract id, an Upgrade's version) and  *)
(* a gas limit.  Checked wraps it with its metadata (the funds its inputs   *)
(* provide), Ready wraps it with the computed fee.                          *)

Ins(op, arg) == [op |-> op, arg |-> arg]

Programs ==
    << << Ins("RET", 1) >>,
       << Ins("LOG", 0), Ins("RVRT", 2) >>,
       << Ins("SWW", 1), Ins("STOP", 0) >>,
       << Ins("LOG", 0), Ins("INVALID", 0), Ins("SWW", 1), Ins("RET", 1) >>,
       << Ins("LOG", 0) >> >>

Scripts == { [kind |-> "Script", body |-> p, gas_limit |-> g] :
                p \in 1..Len(Programs), g \in 0..MaxGasLimit }
Creates == { [kind |-> "Create", body |-> c, gas_limit |-> 0] : c \in {1} }
Upgrades == { [kind |-> "Upgrade", body |-> v, gas_limit |-> 0] : v \in {1} }

Funds == {0, MaxFunds}
GasPrices == {1}
Checked(T) == { [tx |-> t, funds |-> f] : t \in T, f \in Funds }

(* Gas costs of opcodes and fee parameters (InterpreterParams).            *)
GasCosts == [LOG |-> 1, SWW |-> 2, RET |-> 1, RVRT |-> 1, STOP |-> 1, INVALID |-> 1]
FeeParameters == [base |-> 1]

(* Checked::into_ready: the fee is a function of the gas price, the gas    *)
(* costs and the fee parameters; the conversion fails with a CheckError    *)
(* when the funds do not cover the fee.  The error is returned bare here   *)
(* and wrapped by the caller (map_err(InterpreterError::CheckError)).      *)
Fee(tx, gas_price, fee_params) == fee_params.base + tx.gas_limit * gas_price

into_ready(checked, gas_price, gas_costs, fee_params) ==
    LET fee == Fee(checked.tx, gas_price, fee_params)
    IN  IF checked.funds < fee
        THEN Err("InsufficientFeeAmount")
        ELSE Ok([tx |-> checked.tx, fee |-> fee])

(* The Ready values a caller can hold: built by into_ready at some gas     *)
(* price.                                                                  *)
Ready(T) == { [tx |-> t, fee |-> Fee(t, p, FeeParameters)] :
                t \in T, p \in GasPrices }

(* Result::map_err(InterpreterError::CheckError)                           *)
map_err_CheckError(r) == IF is_err(r) THEN Err(CheckError) ELSE r

----------------------------------------------------------------------------
(* The Storage Backend: state slots, deployed contracts, the consensus     *)
(* parameters version an Upgrade sets.  Each call meets a backend that     *)
(* works, fails when the Interpreter initialises the transaction, or       *)
(* fails when an instruction reaches it.                                   *)

Backends == {"ok", "fail_init", "fail_exec"}
EmptyStorage == [slot |-> 0, contracts |-> {}, version |-> 0]

----------------------------------------------------------------------------
(* The Interpreter's execution loop.  A machine is the part of the         *)
(* Interpreter one execution changes.                                      *)

Terminal == {"Returned", "Reverted", "Stopped", "Panicked"}
VmStates == {"Idle", "Executing"} \cup Terminal

(* A panic: execution ends, the panic is recorded as a receipt.            *)
Panic(m, reason) ==
    [m EXCEPT !.vm = "Panicked",
              !.receipts = Append(@, PanicReceipt(reason)),
              !.ret = 0]

(* The effect of a decoded and paid-for instruction.                       *)
Effect(m, ins, backend) ==
    CASE ins.op = "LOG" ->
            [m EXCEPT !.receipts = Append(@, LogReceipt), !.ip = @ + 1]
      [] ins.op = "SWW" ->
            IF backend = "fail_exec"
            THEN Panic(m, "StorageError")
            ELSE [m EXCEPT !.storage.slot = ins.arg, !.ip = @ + 1]
      [] ins.op = "RET" ->
            [m EXCEPT !.vm = "Returned", !.ret = ins.arg,
                      !.receipts = Append(@, ReturnReceipt)]
      [] ins.op = "RVRT" ->
            [m EXCEPT !.vm = "Reverted", !.ret = ins.arg,
                      !.receipts = Append(@, RevertReceipt)]
      [] ins.op = "STOP" ->
            [m EXCEPT !.vm = "Stopped", !.ret = 0]

(* Variant of ExecStep that charges the cost without comparing it with the *)
(* remaining budget.                                                       *)
ExecStep_charges_unchecked(m, code, gas_limit, gas_costs, backend) ==
    IF m.ip > Len(code) THEN Panic(m, "EndOfBytecode")
    ELSE LET ins == code[m.ip]
         IN  IF ins.op = "INVALID" THEN Panic(m, "InvalidInstruction")
             ELSE Effect([m EXCEPT !.gas_used = @ + gas_costs[ins.op]],
                         ins, backend)

(* One step: decode, charge the gas cost against the remaining budget,     *)
(* perform the effect.                                                     *)
ExecStep(m, code, gas_limit, gas_costs, backend) ==
    IF m.ip > Len(code) THEN Panic(m, "EndOfBytecode")
    ELSE LET ins == code[m.ip]
         IN  IF ins.op = "INVALID" THEN Panic(m, "InvalidInstruction")
             ELSE IF gas_costs[ins.op] > gas_limit - m.gas_used
                  THEN Panic(m, "OutOfGas")
                  ELSE Effect([m EXCEPT !.gas_used = @ + gas_costs[ins.op]],
                              ins, backend)

(* The machines the loop passes through, from the first to the terminal.   *)
RECURSIVE Run(_, _, _, _, _)
Run(m, code, gas_limit, gas_costs, backend) ==
    IF m.vm # "Executing" THEN << m >>
    ELSE << m >> \o Run(ExecStep(m, code, gas_limit, gas_costs, backend),
                        code, gas_limit, gas_costs, backend)

(* The ProgramState of a terminal machine.                                 *)
ProgramStateOf(m) ==
    CASE m.vm = "Returned" -> Return(m.ret)
      [] m.vm = "Reverted" -> Revert(m.ret)
      [] m.vm = "Stopped" -> Stop
      [] m.vm = "Panicked" -> Revert(0)

----------------------------------------------------------------------------
(* The Interpreter's entry points.  Each returns the Result handed to the  *)
(* Transactor, the Interpreter after the call and the machines the         *)
(* execution passed through.                                               *)

DefaultTx == [kind |-> "Script", body |-> 0, gas_limit |-> 0]

(* Interpreter::with_storage                                               *)
Interpreter_with_storage(storage, gas_price) ==
    [gas_price |-> gas_price, tx |-> DefaultTx, receipts |-> << >>,
     storage |-> storage, vm |-> "Idle", gas_used |-> 0, ip |-> 1, ret |-> 0,
     tx_offset |-> 0]

(* Interpreter::transact: initialise the transaction (a Storage Backend    *)
(* failure here is a runtime error, nothing was executed), then run the    *)
(* loop to a terminal state.  Ok carries the state transition (state,      *)
(* transaction, receipts).                                                 *)
Interpreter_transact(interp, ready_tx, backend) ==
    IF backend = "fail_init"
    THEN [result |-> Err(StorageError), interpreter |-> interp, trace |-> << >>]
    ELSE LET m0 == [interp EXCEPT !.tx = ready_tx.tx, !.receipts = << >>,
                                  !.vm = "Executing", !.gas_used = 0,
                                  !.ip = 1, !.ret = 0]
             trace == Run(m0, Programs[ready_tx.tx.body], ready_tx.tx.gas_limit,
                          GasCosts, backend)
             mf == trace[Len(trace)]
         IN  [result |-> Ok([state |-> ProgramStateOf(mf), tx |-> mf.tx,
                             receipts |-> mf.receipts]),
              interpreter |-> mf, trace |-> trace]

(* Interpreter::deploy: no bytecode loop; commits the contract or fails.   *)
Interpreter_deploy(interp, ready_tx, backend) ==
    IF backend # "ok"
    THEN [result |-> Err(StorageError), interpreter |-> interp]
    ELSE IF ready_tx.tx.body \in interp.storage.contracts
    THEN [result |-> Err(ContractAlreadyDeployed), interpreter |-> interp]
    ELSE [result |-> Ok(ready_tx.tx),
          interpreter |-> [interp EXCEPT !.storage.contracts = @ \cup {ready_tx.tx.body}]]

(* Interpreter::upgrade: no bytecode loop; commits the upgrade or fails.   *)
Interpreter_upgrade(interp, ready_tx, backend) ==
    IF backend # "ok"
    THEN [result |-> Err(StorageError), interpreter |-> interp]
    ELSE [result |-> Ok(ready_tx.tx),
          interpreter |-> [interp EXCEPT !.storage.version = ready_tx.tx.body]]

(* From<StateTransitionRef> for ProgramState (s.into(), transactor.rs:279) *)
ProgramState_from(s) == s.state

----------------------------------------------------------------------------
(* PredicateCode (fuel-tx, input/predicate.rs): a wrapper of a byte vector. *)

MaxLen == 2
Bytes == {0, 255}
ByteVecs == UNION { [1..n -> Bytes] : n \in 0..MaxLen }

(* #[derive(Default)]: the empty vector.                                   *)
PredicateCode_default == [bytes |-> << >>]

(* From<Vec<u8>> for PredicateCode                                         *)
PredicateCode_from(bytes) == [bytes |-> bytes]

(* Deref::deref: &self.bytes                                               *)
deref(self) == self.bytes

(* DerefMut::deref_mut: &mut self.bytes; vec is what the caller leaves in  *)
(* the vector behind the reference.                                        *)
deref_mut(self, vec) == [self EXCEPT !.bytes = vec]

(* Variant of the derived equality that compares the lengths only.         *)
PredicateCode_eq_lengths_only(self, other) ==
    Len(self.bytes) = Len(other.bytes)

(* #[derivative(PartialEq)]: field by field; the one field is a Vec<u8>,   *)
(* equal to another when of the same length and equal element by element.  *)
PredicateCode_eq(self, other) ==
    /\ Len(self.bytes) = Len(other.bytes)
    /\ \A i \in 1..Len(self.bytes) : self.bytes[i] = other.bytes[i]

Sides == {"a", "b"}

NoPredicates ==
    [code |-> [s \in Sides |-> PredicateCode_default],
     vec |-> [s \in Sides |-> << >>],
     touched |-> [s \in Sides |-> FALSE],
     cmp |-> None]

----------------------------------------------------------------------------
(* The Transactor's read accessors, as functions of the Transactor.        *)

Self == [interpreter |-> interpreter, program_state |-> program_state,
         error |-> error]

(* Transactor::state_transition                                            *)
state_transition(self) ==
    IF is_some(self.program_state)
    THEN Some([state |-> self.program_state.v,
               tx |-> self.interpreter.tx,
               receipts |-> self.interpreter.receipts])
    ELSE None

(* Variant of to_owned_state_transition that does not copy the receipts.   *)
to_owned_without_receipts(self) ==
    IF is_some(self.program_state)
    THEN Some([state |-> self.program_state.v,
               tx |-> self.interpreter.tx,
               receipts |-> << >>])
    ELSE None

(* Transactor::to_owned_state_transition: clones the transaction and the   *)
(* receipts.                                                               *)
to_owned_state_transition(self) ==
    IF is_some(self.program_state)
    THEN Some([state |-> self.program_state.v,
               tx |-> [f \in DOMAIN self.interpreter.tx |-> self.interpreter.tx[f]],
               receipts |-> [i \in 1..Len(self.interpreter.receipts) |->
                                self.interpreter.receipts[i]]])
    ELSE None

(* Transactor::error                                                       *)
error_ref(self) == self.error

(* Variant of is_reverted that does not look at the program state.         *)
is_reverted_only_on_error(self) == is_some(self.error)

(* Transactor::is_reverted                                                 *)
is_reverted(self) ==
    \/ is_some(self.error)
    \/ (is_some(self.program_state) /\ self.program_state.v.tag = "Revert")

(* Transactor::is_success                                                  *)
is_success(self) == ~ is_reverted(self)

(* Variant of result whose first arm matches (Some, _).                    *)
result_prefers_state(self) ==
    LET state == state_transition(self)
        e == self.error
    IN  CASE is_some(state) -> Ok(state.v)
          [] is_none(state) /\ is_some(e) -> Err(e.v)
          [] OTHER -> Err(NoTransactionInitialized)

(* Transactor::result                                                      *)
result(self) ==
    LET state == state_transition(self)
        e == self.error
    IN  CASE is_some(state) /\ is_none(e) -> Ok(state.v)
          [] is_none(state) /\ is_some(e) -> Err(e.v)
          [] OTHER -> Err(NoTransactionInitialized)

(* Transactor::gas_costs, fee_params, tx_offset                            *)
gas_costs(self) == GasCosts
fee_params(self) == FeeParameters
tx_offset(self) == self.interpreter.tx_offset

(* Variant of receipts that does not look at program_state.                *)
receipts_whatever_latched(self) == Some(self.interpreter.receipts)

(* Transactor::receipts (Script)                                           *)
receipts(self) ==
    IF is_some(self.program_state) THEN Some(self.interpreter.receipts) ELSE None

(* Backtrace::from_vm_error                                                *)
Backtrace_from_vm_error(interp, res) ==
    [result |-> res, tx |-> interp.tx, storage |-> interp.storage]

(* Transactor::backtrace (Script)                                          *)
backtrace(self) ==
    LET found == IF is_some(receipts(self))
                 THEN find_map_result(receipts(self).v)
                 ELSE None
    IN  IF is_some(found)
        THEN Some(Backtrace_from_vm_error(self.interpreter, found.v))
        ELSE None

----------------------------------------------------------------------------
(* The Transactor's mutating operations.                                   *)

SelfRef == [tag |-> "Self"]

(* Variant of handle_error without program_state.take().                   *)
handle_error_keeps_state(e) ==
    /\ program_state' = program_state
    /\ error' = Some(e)
    /\ returned' = SelfRef

(* Transactor::handle_error                                                *)
handle_error(e) ==
    /\ program_state' = None
    /\ error' = Some(e)
    /\ returned' = SelfRef

(* Variant of transact_ready_tx without error.take().                      *)
transact_ready_tx_keeps_error(ready_tx, backend) ==
    LET r == Interpreter_transact(interpreter, ready_tx, backend)
    IN  /\ interpreter' = r.interpreter
        /\ IF is_ok(r.result)
           THEN /\ program_state' = Some(ProgramState_from(r.result.v))
                /\ error' = error
                /\ returned' = SelfRef
           ELSE handle_error(r.result.v)

(* Variant of transact_ready_tx without program_state.replace().           *)
transact_ready_tx_drops_state(ready_tx, backend) ==
    LET r == Interpreter_transact(interpreter, ready_tx, backend)
    IN  /\ interpreter' = r.interpreter
        /\ IF is_ok(r.result)
           THEN /\ program_state' = program_state
                /\ error' = None
                /\ returned' = SelfRef
           ELSE handle_error(r.result.v)

(* Transactor::transact_ready_tx                                           *)
transact_ready_tx(ready_tx, backend) ==
    LET r == Interpreter_transact(interpreter, ready_tx, backend)
    IN  /\ interpreter' = r.interpreter
        /\ IF is_ok(r.result)
           THEN /\ program_state' = Some(ProgramState_from(r.result.v))
                /\ error' = None
                /\ returned' = SelfRef
           ELSE handle_error(r.result.v)

(* Variant of transact that returns on a conversion error without          *)
(* handle_error.                                                           *)
transact_ignores_check_error(tx, backend) ==
    LET gas_price == interpreter.gas_price
        conv == map_err_CheckError(
                    into_ready(tx, gas_price, gas_costs(Self), fee_params(Self)))
    IN  IF is_ok(conv)
        THEN transact_ready_tx(conv.v, backend)
        ELSE /\ returned' = SelfRef
             /\ UNCHANGED << interpreter, program_state, error >>

(* Variant of transact that runs the Interpreter before it looks at the    *)
(* conversion's result.                                                    *)
transact_runs_unchecked(tx, backend) ==
    LET gas_price == interpreter.gas_price
        conv == map_err_CheckError(
                    into_ready(tx, gas_price, gas_costs(Self), fee_params(Self)))
        r == Interpreter_transact(interpreter, [tx |-> tx.tx, fee |-> 0], backend)
    IN  IF is_ok(conv)
        THEN transact_ready_tx(conv.v, backend)
        ELSE /\ handle_error(conv.v)
             /\ interpreter' = r.interpreter

(* Transactor::transact                                                    *)
transact(tx, backend) ==
    LET gas_price == interpreter.gas_price
        conv == map_err_CheckError(
                    into_ready(tx, gas_price, gas_costs(Self), fee_params(Self)))
    IN  IF is_ok(conv)
        THEN transact_ready_tx(conv.v, backend)
        ELSE /\ handle_error(conv.v)
             /\ interpreter' = interpreter

(* Variant of deploy_ready_tx that latches the Interpreter's error the way  *)
(* transact_ready_tx does.                                                 *)
deploy_ready_tx_latches_error(ready_tx, backend) ==
    LET r == Interpreter_deploy(interpreter, ready_tx, backend)
    IN  /\ interpreter' = r.interpreter
        /\ returned' = r.result
        /\ IF is_err(r.result)
           THEN /\ program_state' = None
                /\ error' = Some(r.result.v)
           ELSE UNCHANGED << program_state, error >>

(* Transactor::deploy_ready_tx                                             *)
deploy_ready_tx(ready_tx, backend) ==
    LET r == Interpreter_deploy(interpreter, ready_tx, backend)
    IN  /\ interpreter' = r.interpreter
        /\ returned' = r.result
        /\ UNCHANGED << program_state, error >>

(* Variant of deploy that hands the transaction to the Interpreter without *)
(* the conversion.                                                         *)
deploy_skips_check(checked, backend) ==
    deploy_ready_tx([tx |-> checked.tx, fee |-> 0], backend)

(* Transactor::deploy                                                      *)
deploy(checked, backend) ==
    LET gas_price == interpreter.gas_price
        ready == map_err_CheckError(
                    into_ready(checked, gas_price, gas_costs(Self), fee_params(Self)))
    IN  IF is_err(ready)
        THEN /\ returned' = ready
             /\ UNCHANGED << interpreter, program_state, error >>
        ELSE deploy_ready_tx(ready.v, backend)

(* Transactor::execute_ready_upgrade_tx                                    *)
execute_ready_upgrade_tx(ready_tx, backend) ==
    LET r == Interpreter_upgrade(interpreter, ready_tx, backend)
    IN  /\ interpreter' = r.interpreter
        /\ returned' = r.result
        /\ UNCHANGED << program_state, error >>

(* Transactor::upgrade                                                     *)
upgrade(checked, backend) ==
    LET gas_price == interpreter.gas_price
        ready == map_err_CheckError(
                    into_ready(checked, gas_price, gas_costs(Self), fee_params(Self)))
    IN  IF is_err(ready)
        THEN /\ returned' = ready
             /\ UNCHANGED << interpreter, program_state, error >>
        ELSE execute_ready_upgrade_tx(ready.v, backend)

----------------------------------------------------------------------------
(* History of the last mutating call: recorded from the call's input and   *)
(* from what the conversion and the Interpreter do with it, not from what  *)
(* the Transactor latches.                                                 *)

NoCall ==
    [op |-> "none", conv |-> None, ran |-> None, trace |-> << >>, pre |-> "none",
     transacted |-> "none"]

TransactOps == {"transact", "transact_ready_tx"}
DeployOps == {"deploy", "deploy_ready_tx", "upgrade", "execute_ready_upgrade_tx"}

(* What a call handed back to the Transactor: the conversion's error, or   *)
(* what the Interpreter returned.                                          *)
OutcomeOf(conv, ran) ==
    IF is_some(conv) /\ is_err(conv.v) THEN conv.v ELSE ran.v

(* Which of the two fields a Transactor has latched.                       *)
Latched(ps, e) ==
    CASE is_some(ps) /\ is_some(e) -> "both"
      [] is_some(ps) -> "state"
      [] is_some(e) -> "error"
      [] OTHER -> "none"

Conv(checked) ==
    map_err_CheckError(into_ready(checked, interpreter.gas_price, GasCosts, FeeParameters))

Record(op, conv, ran, trace) ==
    /\ calls' = calls + 1
    /\ last' = [op |-> op, conv |-> conv, ran |-> ran, trace |-> trace,
                pre |-> Latched(program_state, error),
                transacted |-> IF op \in TransactOps
                               THEN (IF is_ok(OutcomeOf(conv, ran)) THEN "ok" ELSE "err")
                               ELSE last.transacted]

NothingObserved == [tag |-> "None"]

----------------------------------------------------------------------------
(* The calls a caller can make.                                            *)

Transact ==
    /\ calls < MaxCalls
    /\ \E tx \in Checked(Scripts), backend \in Backends :
            /\ transact(tx, backend)
            /\ LET conv == Conv(tx)
               IN  IF is_ok(conv)
                   THEN LET r == Interpreter_transact(interpreter, conv.v, backend)
                        IN  Record("transact", Some(conv), Some(r.result), r.trace)
                   ELSE Record("transact", Some(conv), None, << >>)
            /\ observed' = NothingObserved
            /\ UNCHANGED predicate

TransactReadyTx ==
    /\ calls < MaxCalls
    /\ \E ready_tx \in Ready(Scripts), backend \in Backends :
            /\ transact_ready_tx(ready_tx, backend)
            /\ LET r == Interpreter_transact(interpreter, ready_tx, backend)
               IN  Record("transact_ready_tx", None, Some(r.result), r.trace)
            /\ observed' = NothingObserved
            /\ UNCHANGED predicate

Deploy ==
    /\ calls < MaxCalls
    /\ \E checked \in Checked(Creates), backend \in Backends :
            /\ deploy(checked, backend)
            /\ LET conv == Conv(checked)
               IN  IF is_ok(conv)
                   THEN Record("deploy", Some(conv),
                               Some(Interpreter_deploy(interpreter, conv.v, backend).result),
                               << >>)
                   ELSE Record("deploy", Some(conv), None, << >>)
            /\ observed' = NothingObserved
            /\ UNCHANGED predicate

DeployReadyTx ==
    /\ calls < MaxCalls
    /\ \E ready_tx \in Ready(Creates), backend \in Backends :
            /\ deploy_ready_tx(ready_tx, backend)
            /\ Record("deploy_ready_tx", None,
                      Some(Interpreter_deploy(interpreter, ready_tx, backend).result), << >>)
            /\ observed' = NothingObserved
            /\ UNCHANGED predicate

Upgrade ==
    /\ calls < MaxCalls
    /\ \E checked \in Checked(Upgrades), backend \in Backends :
            /\ upgrade(checked, backend)
            /\ LET conv == Conv(checked)
               IN  IF is_ok(conv)
                   THEN Record("upgrade", Some(conv),
                               Some(Interpreter_upgrade(interpreter, conv.v, backend).result),
                               << >>)
                   ELSE Record("upgrade", Some(conv), None, << >>)
            /\ observed' = NothingObserved
            /\ UNCHANGED predicate

ExecuteReadyUpgradeTx ==
    /\ calls < MaxCalls
    /\ \E ready_tx \in Ready(Upgrades), backend \in Backends :
            /\ execute_ready_upgrade_tx(ready_tx, backend)
            /\ Record("execute_ready_upgrade_tx", None,
                      Some(Interpreter_upgrade(interpreter, ready_tx, backend).result), << >>)
            /\ observed' = NothingObserved
            /\ UNCHANGED predicate

(* The read accessors, called together.                                    *)
Accessors(self) ==
    [tag |-> "Some",
     state_transition |-> state_transition(self),
     to_owned_state_transition |-> to_owned_state_transition(self),
     error |-> error_ref(self),
     is_success |-> is_success(self),
     is_reverted |-> is_reverted(self),
     result |-> result(self),
     receipts |-> receipts(self),
     backtrace |-> backtrace(self),
     gas_costs |-> gas_costs(self),
     fee_params |-> fee_params(self),
     tx_offset |-> tx_offset(self)]

(* Variant of Observe in which reading the error takes it out of the       *)
(* Transactor.                                                             *)
Observe_takes_error ==
    /\ observed' = Accessors(Self)
    /\ error' = None
    /\ UNCHANGED << interpreter, program_state, returned, last, calls, predicate >>

Observe ==
    /\ observed' = Accessors(Self)
    /\ UNCHANGED << interpreter, program_state, error, returned, last, calls,
                    predicate >>

----------------------------------------------------------------------------
(* Transactor::new and From<Interpreter>: both fields None.                *)

new(storage, gas_price) ==
    /\ interpreter = Interpreter_with_storage(storage, gas_price)
    /\ program_state = None
    /\ error = None

Init ==
    /\ \E gas_price \in GasPrices : new(EmptyStorage, gas_price)
    /\ returned = None
    /\ last = NoCall
    /\ observed = NothingObserved
    /\ calls = 0
    /\ predicate = NoPredicates

Next ==
    \/ Transact
    \/ TransactReadyTx
    \/ Deploy
    \/ DeployReadyTx
    \/ Upgrade
    \/ ExecuteReadyUpgradeTx
    \/ Observe

Spec == Init /\ [][Next]_vars

----------------------------------------------------------------------------
(* The read accessors as functions of the Transactor's fields alone: every *)
(* combination of field values, the ones no call sequence produces         *)
(* included, and the accessors applied to it.                              *)

ProgramStates == {Return(1), Revert(0), Revert(2), Stop}
InterpreterErrors == {CheckError, StorageError, NoTransactionInitialized}
ReceiptLogs ==
    { << >>,
      << LogReceipt, ReturnReceipt >>,
      << LogReceipt, RevertReceipt >>,
      << LogReceipt, PanicReceipt("OutOfGas") >> }
Interpreters ==
    { [Interpreter_with_storage(EmptyStorage, 1) EXCEPT !.receipts = rs] :
        rs \in ReceiptLogs }

InitAccessors ==
    /\ interpreter \in Interpreters
    /\ program_state \in {None} \cup {Some(ps) : ps \in ProgramStates}
    /\ error \in {None} \cup {Some(e) : e \in InterpreterErrors}
    /\ returned = None
    /\ last = NoCall
    /\ observed = NothingObserved
    /\ calls = 0
    /\ predicate = NoPredicates

NextAccessors == Observe

SpecAccessors == InitAccessors /\ [][NextAccessors]_vars

----------------------------------------------------------------------------
(* PredicateCode on its own: two values a and b, built from byte vectors,  *)
(* changed through DerefMut and compared. predicate.vec is the vector the  *)
(* caller holds to have put into each value.                               *)

PredFrom ==
    /\ \E s \in Sides, bytes \in ByteVecs :
            predicate' = [predicate EXCEPT !.code[s] = PredicateCode_from(bytes),
                                           !.vec[s] = bytes,
                                           !.touched[s] = FALSE,
                                           !.cmp = None]
    /\ UNCHANGED << interpreter, program_state, error, returned, last, observed, calls >>

(* code.push(x): Vec::push through deref_mut.                              *)
PredPush ==
    /\ \E s \in Sides, x \in Bytes :
            /\ Len(deref(predicate.code[s])) < MaxLen
            /\ predicate' =
                 [predicate EXCEPT
                    !.code[s] = deref_mut(@, Append(deref(predicate.code[s]), x)),
                    !.vec[s] = Append(@, x),
                    !.touched[s] = TRUE,
                    !.cmp = None]
    /\ UNCHANGED << interpreter, program_state, error, returned, last, observed, calls >>

(* code[i] = x: an indexed store through deref_mut.                        *)
PredSet ==
    /\ \E s \in Sides, x \in Bytes :
         \E i \in 1..Len(deref(predicate.code[s])) :
            predicate' =
                 [predicate EXCEPT
                    !.code[s] = deref_mut(@, [deref(predicate.code[s]) EXCEPT ![i] = x]),
                    !.vec[s] = [@ EXCEPT ![i] = x],
                    !.touched[s] = TRUE,
                    !.cmp = None]
    /\ UNCHANGED << interpreter, program_state, error, returned, last, observed, calls >>

(* a == b                                                                  *)
PredEq ==
    /\ predicate' = [predicate EXCEPT
                        !.cmp = Some(PredicateCode_eq(predicate.code["a"],
                                                      predicate.code["b"]))]
    /\ UNCHANGED << interpreter, program_state, error, returned, last, observed, calls >>

InitPredicate ==
    /\ new(EmptyStorage, 1)
    /\ returned = None
    /\ last = NoCall
    /\ observed = NothingObserved
    /\ calls = 0
    /\ predicate = NoPredicates

NextPredicate ==
    \/ PredFrom
    \/ PredPush
    \/ PredSet
    \/ PredEq

SpecPredicate == InitPredicate /\ [][NextPredicate]_vars

----------------------------------------------------------------------------
(* Properties.                                                             *)

ExactlyOneLatched == is_some(program_state) # is_some(error)
LastOutcome == OutcomeOf(last.conv, last.ran)
LastFailed == is_err(LastOutcome)

C2_NeverBoth == ~ (is_some(program_state) /\ is_some(error))

C2_Witness ==
    /\ last.op \in TransactOps
    /\ last.pre = "error"
    /\ is_some(program_state)
    /\ is_none(error)

(* C3: after transact or transact_ready_tx the latched outcome is that     *)
(* call's alone: a conversion failure or an Interpreter error leaves       *)
(* error = Some(that error) and program_state = None; a program state      *)
(* leaves program_state = Some(that state) and error = None, also when an  *)
(* error was latched before the call.                                      *)
C3_TransactLatchesOwnOutcome ==
    last.op \in TransactOps =>
        /\ is_err(LastOutcome) =>
              /\ error = Some(LastOutcome.v)
              /\ program_state = None
        /\ is_ok(LastOutcome) =>
              /\ program_state = Some(LastOutcome.v.state)
              /\ error = None
              /\ error_ref(Self) = None
              /\ is_some(state_transition(Self))

C3_Witness ==
    /\ last.op = "transact"
    /\ last.pre = "error"
    /\ is_ok(LastOutcome)
    /\ is_some(state_transition(Self))
    /\ error_ref(Self) = None

C5_ValidationPrecedesExecution ==
    [][ (calls' = calls + 1 /\ is_some(last'.conv) /\ is_err(last'.conv.v)) =>
            /\ interpreter' = interpreter
            /\ last'.conv.v = Err(CheckError)
            /\ last'.op = "transact" =>
                  (error' = Some(CheckError) /\ program_state' = None)
            /\ last'.op \in DeployOps => returned' = Err(CheckError) ]_vars

C5_Witness ==
    /\ last.op = "transact"
    /\ is_some(last.conv)
    /\ is_err(last.conv.v)
    /\ interpreter.receipts # << >>
    /\ interpreter.storage # EmptyStorage
    /\ error = Some(CheckError)

(* C6: result() is Ok(state transition) exactly when program_state is     *)
(* Some and error is None, Err(latched error) when error is Some and       *)
(* program_state is None, Err(NoTransactionInitialized) when neither or    *)
(* both are latched; it is never Ok while an error is latched.             *)
C6_ResultCollapses ==
    observed.tag = "Some" =>
        LET r == observed.result
        IN  /\ is_ok(r) <=> (is_some(program_state) /\ is_none(error))
            /\ is_ok(r) => r.v = [state |-> program_state.v,
                                  tx |-> interpreter.tx,
                                  receipts |-> interpreter.receipts]
            /\ (is_none(program_state) /\ is_some(error)) => r = Err(error.v)
            /\ (is_some(program_state) <=> is_some(error)) =>
                  r = Err(NoTransactionInitialized)
            /\ is_some(error) => is_err(r)

C6_Witness ==
    /\ observed.tag = "Some"
    /\ is_some(program_state)
    /\ is_some(error)
    /\ error.v # NoTransactionInitialized
    /\ observed.result = Err(NoTransactionInitialized)

(* The two state transition views carry the same state, transaction and   *)
(* receipts: those of the latched state and of the Interpreter.            *)
SameTransition(st, owned) ==
    /\ is_some(st)
    /\ is_some(owned)
    /\ st.v.state = owned.v.state
    /\ st.v.tx = owned.v.tx
    /\ st.v.receipts = owned.v.receipts
    /\ st.v.state = program_state.v
    /\ st.v.tx = interpreter.tx
    /\ st.v.receipts = interpreter.receipts

HasFailingReceipt ==
    \E i \in 1..Len(interpreter.receipts) : is_some(interpreter.receipts[i].result)

C9_SuccessPredicates ==
    /\ (last.op \in TransactOps /\ is_ok(LastOutcome)
            /\ LastOutcome.v.state.tag # "Revert") =>
          /\ is_success(Self)
          /\ state_transition(Self) = Some([state |-> LastOutcome.v.state,
                                            tx |-> interpreter.tx,
                                            receipts |-> interpreter.receipts])
          /\ error_ref(Self) = None
    /\ (last.op \in TransactOps
            /\ (is_err(LastOutcome) \/ LastOutcome.v.state.tag = "Revert")) =>
          (is_reverted(Self) /\ ~ is_success(Self))
    /\ is_success(Self) <=> ~ is_reverted(Self)

C9_Witness ==
    /\ last.op = "transact"
    /\ is_ok(LastOutcome)
    /\ LastOutcome.v.state = Return(1)
    /\ last.pre = "error"
    /\ is_success(Self)

CostExceedsBudget(m, code, gas_limit) ==
    /\ m.vm = "Executing"
    /\ m.ip <= Len(code)
    /\ code[m.ip].op # "INVALID"
    /\ GasCosts[code[m.ip].op] > gas_limit - m.gas_used

C13_ReceiptsFollowStateTransition ==
    /\ is_some(receipts(Self)) <=> is_some(state_transition(Self))
    /\ is_some(receipts(Self)) =>
          /\ receipts(Self).v = state_transition(Self).v.receipts
          /\ receipts(Self).v = interpreter.receipts
    /\ last.transacted \in {"none", "err"} => is_none(receipts(Self))
    /\ last.transacted = "ok" => is_some(receipts(Self))

C13_Witness ==
    /\ last.op \in TransactOps
    /\ last.transacted = "err"
    /\ interpreter.receipts # << >>
    /\ is_none(receipts(Self))
    /\ is_none(state_transition(Self))

(* C14: the read accessors leave program_state, error and the Interpreter  *)
(* unchanged, and between two mutating calls they return the same values   *)
(* each time they are called: a step that is not a mutating call changes   *)
(* none of the three fields and does not change values already read, and   *)
(* the values read are the ones the accessors return in the current state. *)
C14_AccessorsArePure ==
    [][ (calls' = calls) =>
            /\ UNCHANGED << interpreter, program_state, error >>
            /\ observed'.tag = "Some"
            /\ observed.tag = "Some" => observed' = observed
            /\ observed' = Accessors(Self) ]_vars

C14_Witness ==
    /\ calls >= 1
    /\ last.op \in TransactOps
    /\ observed.tag = "Some"
    /\ is_some(observed.state_transition)
    /\ is_some(observed.receipts)
    /\ observed = Accessors(Self)

(* What the latched fields let a caller see of the last transaction, apart *)
(* from the Interpreter's transaction and receipts.                        *)
LatchedView(self) ==
    [state_transition |-> IF is_some(state_transition(self))
                          THEN Some(state_transition(self).v.state) ELSE None,
     error |-> error_ref(self),
     result |-> IF is_ok(result(self)) THEN Ok(result(self).v.state) ELSE result(self),
     is_success |-> is_success(self),
     is_reverted |-> is_reverted(self)]

(* C15: a call to deploy, deploy_ready_tx, upgrade or                      *)
(* execute_ready_upgrade_tx, successful or not, leaves program_state and   *)
(* error as they were and reports its outcome as its return value; what    *)
(* state_transition(), error(), result(), is_success() and is_reverted()   *)
(* return is the same after the call as before it, up to the Interpreter's *)
(* transaction and receipts.                                               *)
C15_DeployLeavesLatchedFields ==
    [][ (calls' = calls + 1 /\ last'.op \in DeployOps) =>
            /\ UNCHANGED << program_state, error >>
            /\ returned' = OutcomeOf(last'.conv, last'.ran)
            /\ LatchedView(Self)' = LatchedView(Self) ]_vars

C15_Witness ==
    /\ last.op = "deploy_ready_tx"
    /\ LastFailed
    /\ returned = Err(ContractAlreadyDeployed)
    /\ last.pre = "state"
    /\ is_some(program_state)
    /\ is_none(error)
    /\ is_success(Self)

(* C16: in every reachable state, the initial one included, the success    *)
(* predicates agree with result(): is_success() is true only if result()   *)
(* is Ok, and result() is Err only if is_reverted() is true.               *)
C16_SuccessAgreesWithResult ==
    /\ is_success(Self) => is_ok(result(Self))
    /\ is_err(result(Self)) => is_reverted(Self)

(* C17: PredicateCode behaves as a plain byte sequence: a value built from *)
(* a byte vector dereferences to exactly that vector, a change made        *)
(* through DerefMut is seen through Deref and in the bytes field, and two  *)
(* values compare equal exactly when their byte sequences are equal.       *)
C17_PredicateCodeIsByteSequence ==
    /\ \A s \in Sides :
          /\ deref(predicate.code[s]) = predicate.vec[s]
          /\ predicate.code[s].bytes = predicate.vec[s]
    /\ is_some(predicate.cmp) =>
          (predicate.cmp.v <=> predicate.vec["a"] = predicate.vec["b"])

C17_Witness ==
    /\ predicate.touched["a"]
    /\ ~predicate.touched["b"]
    /\ Len(predicate.vec["a"]) = MaxLen
    /\ Len(predicate.vec["b"]) = MaxLen
    /\ predicate.vec["a"] # predicate.vec["b"]
    /\ deref(predicate.code["a"]) = predicate.vec["a"]
    /\ predicate.cmp = Some(FALSE)

====
